---- MODULE Spec2Model ----
(***************************************************************************)
(* A model of the polar-plant dashboard script (src/main.py): one run of   *)
(* the script over one data directory.  The two loaders                    *)
(* (load_and_preprocess_env_data, load_and_preprocess_growth_data), the    *)
(* all-empty check, the school selector, the filter and the three tabs are *)
(* one action each (the loaders' loops are one action per visited item).   *)
(*                                                                         *)
(* Representation.                                                         *)
(*  - A raw cell of a CSV file or of a sheet is a sequence of one-letter   *)
(*    strings ("characters"); <<>> is the empty cell.                      *)
(*  - A float is an exact rational [num, den] in lowest terms, den > 0;    *)
(*    NaN is [num |-> 0, den |-> 0].  Floating-point rounding is not      *)
(*    modelled.                                                            *)
(*  - A DataFrame is [columns: sequence of names, rows: sequence of        *)
(*    functions from the column names to values]; pd.DataFrame() is the    *)
(*    frame with no columns and no rows.                                   *)
(*  - School names are romanised, since the module is ASCII: Songdogo,     *)
(*    Haneulgo, Arago, Dongsango; the selector's "all" entry is Jeonche.   *)
(***************************************************************************)
EXTENDS Integers, Sequences, FiniteSets, TLC

\* ------------------------------------------------------------------ bounds
\* Rows per file or sheet in the single-item inputs.
MaxRows == 3
\* Matched CSV files (sheets of the workbook) in the multi-item inputs.
MaxItems == 2

\* ------------------------------------------------------------- sequences
Range(s) == {s[i] : i \in 1..Len(s)}

RECURSIVE Flatten(_)
Flatten(ss) == IF ss = <<>> THEN <<>> ELSE Head(ss) \o Flatten(Tail(ss))

SeqsUpTo(S, n) == UNION {[1..k -> S] : k \in 0..n}

\* --------------------------------------------------------------- numbers
RECURSIVE GCD(_, _)
GCD(a, b) == IF b = 0 THEN a ELSE GCD(b, a % b)

\* A float value: the rational n/d in lowest terms.
Float(n, d) == LET g == GCD(n, d) IN [num |-> n \div g, den |-> d \div g]

\* The missing value produced by errors='coerce' and by a mean over nothing.
NaN == [num |-> 0, den |-> 0]

IsNaN(x) == x.den = 0

FAdd(a, b) == Float(a.num * b.den + b.num * a.den, a.den * b.den)

FLess(a, b) == a.num * b.den < b.num * a.den

RECURSIVE FSum(_)
FSum(xs) == IF xs = <<>> THEN Float(0, 1) ELSE FAdd(Head(xs), FSum(Tail(xs)))

\* ------------------------------------------------------------ characters
Digits == <<"0", "1", "2", "3", "4", "5", "6", "7", "8", "9">>

IsDigit(c) == \E i \in 1..10 : Digits[i] = c

DigitVal(c) == (CHOOSE i \in 1..10 : Digits[i] = c) - 1

RECURSIVE DigitsVal(_)
DigitsVal(cell) ==
    IF cell = <<>> THEN 0
    ELSE DigitsVal(SubSeq(cell, 1, Len(cell) - 1)) * 10 + DigitVal(cell[Len(cell)])

IsNumeral(cell) == cell # <<>> /\ \A i \in 1..Len(cell) : IsDigit(cell[i])

RECURSIVE IntStr(_)
IntStr(n) == IF n < 10 THEN <<Digits[n + 1]>>
             ELSE IntStr(n \div 10) \o <<Digits[(n % 10) + 1]>>

\* A faulty variant, to test C4: an unparseable cell read as zero.
ToNumericMissingAsZero(cell) == IF IsNumeral(cell) THEN Float(DigitsVal(cell), 1) ELSE Float(0, 1)
\* pd.to_numeric(cell, errors='coerce'): the number, or NaN.
ToNumeric(cell) == IF IsNumeral(cell) THEN Float(DigitsVal(cell), 1) ELSE NaN

\* The missing timestamp.
NaT == -1

\* pd.to_datetime(cell, errors='coerce'): the timestamp (a compact digit
\* string stands for a date), or NaT.
ToDatetime(cell) == IF IsNumeral(cell) THEN DigitsVal(cell) ELSE NaT

\* str(x) of a float with at most one decimal place: "1.0", "2.5".
FloatStr(x) ==
    LET t == (x.num * 10) \div x.den
    IN  IntStr(t \div 10) \o <<".">> \o <<Digits[(t % 10) + 1]>>

\* float(s) of a string written by FloatStr.
RECURSIVE SplitAt(_, _)
SplitAt(s, c) == IF s = <<>> \/ Head(s) = c THEN <<>> ELSE <<Head(s)>> \o SplitAt(Tail(s), c)

ParseFloat(s) ==
    LET ip == SplitAt(s, ".")
        fp == SubSeq(s, Len(ip) + 2, Len(s))
    IN  Float(DigitsVal(ip) * 10 + DigitsVal(fp), 10)

\* -------------------------------------------------------------- registry
\* The keys of EC_MAPPING in declaration order.
Schools == <<"Songdogo", "Haneulgo", "Arago", "Dongsango">>

\* A registry in which two schools share a target EC.
EC_MAPPINGWithSharedGoal ==
    [s \in Range(Schools) |->
        CASE s = "Songdogo"  -> [EC_goal |-> Float(1, 1), color |-> "#1f77b4", cp |-> 49569]
          [] s = "Haneulgo"  -> [EC_goal |-> Float(1, 1), color |-> "#2ca02c", cp |-> 54616]
          [] s = "Arago"     -> [EC_goal |-> Float(4, 1), color |-> "#ff7f0e", cp |-> 50500]
          [] s = "Dongsango" -> [EC_goal |-> Float(8, 1), color |-> "#d62728", cp |-> 46041]]

\* EC_MAPPING.  cp is the code point of the first syllable of the Korean
\* name (song U+C1A1, ha U+D558, a U+C544, dong U+B3D9): Python compares
\* strings by code point, and the four names differ in the first one.
EC_MAPPING ==
    [s \in Range(Schools) |->
        CASE s = "Songdogo"  -> [EC_goal |-> Float(1, 1), color |-> "#1f77b4", cp |-> 49569]
          [] s = "Haneulgo"  -> [EC_goal |-> Float(2, 1), color |-> "#2ca02c", cp |-> 54616]
          [] s = "Arago"     -> [EC_goal |-> Float(4, 1), color |-> "#ff7f0e", cp |-> 50500]
          [] s = "Dongsango" -> [EC_goal |-> Float(8, 1), color |-> "#d62728", cp |-> 46041]]

InMapping(name) == name \in DOMAIN EC_MAPPING

\* The selector's entry for "all schools".
Jeonche == "Jeonche"

school_options == <<Jeonche>> \o Schools

\* Orders of the grouping keys: school names (strings), floats, and the
\* growth summary's labels (strings of digits, ".", " ", "E", "C").
SchoolLess(a, b) == EC_MAPPING[a].cp < EC_MAPPING[b].cp

CharOrd(c) == IF IsDigit(c) THEN 48 + DigitVal(c)
              ELSE CASE c = " " -> 32 [] c = "." -> 46 [] c = "C" -> 67 [] c = "E" -> 69
                     [] OTHER -> 120

RECURSIVE StrLess(_, _)
StrLess(a, b) ==
    IF b = <<>> THEN FALSE
    ELSE IF a = <<>> THEN TRUE
    ELSE IF Head(a) # Head(b) THEN CharOrd(Head(a)) < CharOrd(Head(b))
    ELSE StrLess(Tail(a), Tail(b))

\* ------------------------------------------------------------ DataFrames
\* pd.DataFrame()
EmptyFrame == [columns |-> <<>>, rows |-> <<>>]

\* df.empty: no rows or no columns.
IsEmpty(df) == df.rows = <<>> \/ df.columns = <<>>

HasColumn(df, c) == c \in Range(df.columns)

\* df[df[col] == v]; the caller checks that the column exists.
SelectWhere(df, col, v) ==
    [columns |-> df.columns, rows |-> SelectSeq(df.rows, LAMBDA r : r[col] = v)]

RECURSIVE Without(_, _)
Without(cols, c) ==
    IF cols = <<>> THEN <<>>
    ELSE IF Head(cols) = c THEN Without(Tail(cols), c)
    ELSE <<Head(cols)>> \o Without(Tail(cols), c)

\* df.drop(columns=[c], errors='ignore')
DropColumn(df, c) ==
    LET cols == Without(df.columns, c)
    IN  [columns |-> cols,
         rows |-> [i \in 1..Len(df.rows) |-> [k \in Range(cols) |-> df.rows[i][k]]]]

\* pd.concat(frames, ignore_index=True) of frames with the same columns.
Concat(frames) ==
    [columns |-> frames[1].columns,
     rows |-> Flatten([i \in 1..Len(frames) |-> frames[i].rows])]

\* ----------------------------------------------------------- aggregation
Column(rows, c) == [i \in 1..Len(rows) |-> rows[i][c]]

\* A faulty variant, to test C5: the sum over the number of rows.
MeanOverRowCount(xs) ==
    LET present == SelectSeq(xs, LAMBDA x : ~IsNaN(x))
        total   == FSum(present)
    IN  IF xs = <<>> THEN NaN ELSE Float(total.num, total.den * Len(xs))
\* Series.mean(): the sum of the present values over their number; NaN
\* when none is present.
Mean(xs) ==
    LET present == SelectSeq(xs, LAMBDA x : ~IsNaN(x))
        total   == FSum(present)
    IN  IF present = <<>> THEN NaN ELSE Float(total.num, total.den * Len(present))

\* Whether a value of the given dtype is null.
IsNull(dtype, v) ==
    CASE dtype = "float"    -> IsNaN(v)
      [] dtype = "datetime" -> v = NaT
      [] dtype = "object"   -> v = <<>>
      [] OTHER              -> FALSE

\* A faulty variant, to test C10: the null test inverted.
CountNulls(dtype, xs) == Len(SelectSeq(xs, LAMBDA x : IsNull(dtype, x)))
\* Series.count(): the number of non-null values.
Count(dtype, xs) == Len(SelectSeq(xs, LAMBDA x : ~IsNull(dtype, x)))

\* The distinct values of a sequence in order of first occurrence.
RECURSIVE Distinct(_)
Distinct(xs) ==
    IF xs = <<>> THEN <<>>
    ELSE LET init == Distinct(SubSeq(xs, 1, Len(xs) - 1))
             x    == xs[Len(xs)]
         IN  IF x \in Range(init) THEN init ELSE Append(init, x)

\* The order of two keys of the given kind: school names, floats, labels.
Less(kind, a, b) ==
    CASE kind = "school" -> SchoolLess(a, b)
      [] kind = "float"  -> FLess(a, b)
      [] kind = "label"  -> StrLess(a, b)

\* Distinct keys in ascending order: the key with i-1 smaller keys is the
\* i-th.
Sorted(ks, kind) ==
    [i \in 1..Len(ks) |->
        CHOOSE k \in Range(ks) : Cardinality({j \in Range(ks) : Less(kind, j, k)}) = i - 1]

\* A variant, to test C8: the keys as groupby(key, sort=False) gives them.
GroupKeysUnsorted(rows, key, kind) == Distinct(Column(rows, key))
\* The group keys of df.groupby(key): sort=True is the default, so the keys
\* come out in ascending order, not in order of first occurrence.
GroupKeys(rows, key, kind) == Sorted(Distinct(Column(rows, key)), kind)

\* One named aggregation, out=(col, fn), over the rows of one group.
Aggregate(a, rows) ==
    CASE a.fn = "mean"  -> Mean(Column(rows, a.col))
      [] a.fn = "first" -> rows[1][a.col]
      [] a.fn = "count" -> Count(a.dtype, Column(rows, a.col))

\* df.groupby(key).agg(**aggs).reset_index()
GroupByAgg(df, key, kind, aggs) ==
    LET keys == GroupKeys(df.rows, key, kind)
        outs == [i \in 1..Len(aggs) |-> aggs[i].out]
        Row(k) ==
            LET grp == SelectSeq(df.rows, LAMBDA r : r[key] = k)
            IN  [c \in {key} \cup Range(outs) |->
                    IF c = key THEN k
                    ELSE Aggregate(aggs[CHOOSE i \in 1..Len(aggs) : aggs[i].out = c], grp)]
    IN  [columns |-> <<key>> \o outs,
         rows    |-> [i \in 1..Len(keys) |-> Row(keys[i])]]

\* The named aggregations of the two summaries.
EnvAggs ==
    << [out |-> "avg_temp",     col |-> "temperature", fn |-> "mean",  dtype |-> "float"],
       [out |-> "avg_humidity", col |-> "humidity",    fn |-> "mean",  dtype |-> "float"],
       [out |-> "avg_ph",       col |-> "ph",          fn |-> "mean",  dtype |-> "float"],
       [out |-> "avg_ec",       col |-> "ec",          fn |-> "mean",  dtype |-> "float"],
       [out |-> "ec_goal",      col |-> "ec_goal",     fn |-> "first", dtype |-> "float"],
       [out |-> "count",        col |-> "time",        fn |-> "count", dtype |-> "datetime"] >>

GrowthAggs ==
    << [out |-> "avg_fresh_weight", col |-> "fresh_weight",  fn |-> "mean",  dtype |-> "float"],
       [out |-> "avg_leaf_count",   col |-> "leaf_count",    fn |-> "mean",  dtype |-> "float"],
       [out |-> "avg_shoot_length", col |-> "shoot_length",  fn |-> "mean",  dtype |-> "float"],
       [out |-> "count",            col |-> "individual_id", fn |-> "count", dtype |-> "object"] >>

\* ---------------------------------------------------------------- inputs
\* A name as stored: its Unicode form, the text before the first "_" and
\* the marker it contains ("env" for the environment-data token, "growth"
\* for the growth-result token).  A sheet name has no marker.
Name(form, prefix, token) == [form |-> form, prefix |-> prefix, token |-> token]

\* unicodedata.normalize("NFC", name)
Normalize(name) == [name EXCEPT !.form = "NFC"]

\* A registry key is a composed string: a stored name equals it only in
\* composed form.
Text(name) == IF name.form = "NFC" THEN name.prefix ELSE "(decomposed)"

\* A table as read: whether the reader accepts it, its number of columns
\* and its data rows (sequences of raw cells).
Table(name, readable, width, rows) ==
    [name |-> name, readable |-> readable, width |-> width, rows |-> rows]

CsvFile(name, readable, width, rows) ==
    [ext |-> "csv", table |-> Table(name, readable, width, rows), sheets |-> <<>>]

Workbook(name, readable, sheets) ==
    [ext |-> "xlsx", table |-> Table(name, readable, 0, <<>>), sheets |-> sheets]

OtherFile(ext, name) ==
    [ext |-> ext, table |-> Table(name, TRUE, 0, <<>>), sheets |-> <<>>]

EnvName(school) == Name("NFC", school, "env")
GrowthName == Name("NFC", "4", "growth")
SheetName(school) == Name("NFC", school, "")

Ten == <<"1", "0">>
Twenty == <<"2", "0">>
Junk == <<"x">>
Stamp == <<"7">>
Five == <<"5">>

TimeCells == {Stamp, Junk}
NumCells == {Ten, Twenty, Junk}
IdCells == {<<"a">>, <<>>}

\* Rows of the single-file inputs: the timestamp and the temperature vary.
EnvRows == {<<t, v, Five, Five, Five>> : t \in TimeCells, v \in NumCells}

\* Rows of the single-sheet inputs: the id and the fresh weight vary.
GrowthRows == {<<id, Five, Five, Five, w>> : id \in IdCells, w \in NumCells}

GoodEnvRow == <<Stamp, Ten, Ten, Ten, Ten>>
BlankEnvRow == <<Stamp, Junk, <<>>, Junk, <<>>>>
UndatedEnvRow == <<<<>>, Ten, Ten, Ten, Ten>>
GoodGrowthRow == <<<<"a">>, Ten, Ten, Ten, Ten>>
BlankGrowthRow == <<<<"b">>, Junk, <<>>, Junk, <<>>>>

FixedCsv == CsvFile(EnvName("Songdogo"), TRUE, 5, <<GoodEnvRow>>)
FixedWorkbook ==
    Workbook(GrowthName, TRUE, <<Table(SheetName("Songdogo"), TRUE, 5, <<GoodGrowthRow>>)>>)

\* The files of the multi-file inputs.
CsvCatalogue ==
    {CsvFile(EnvName(s), TRUE, 5, <<GoodEnvRow>>) : s \in Range(Schools) \cup {"Gita"}}
    \cup {CsvFile(EnvName("Songdogo"), FALSE, 5, <<GoodEnvRow>>),
          CsvFile(EnvName("Songdogo"), TRUE, 4, <<<<Stamp, Ten, Ten, Ten>>>>),
          CsvFile(EnvName("Songdogo"), TRUE, 5, <<>>),
          CsvFile(EnvName("Songdogo"), TRUE, 5, <<UndatedEnvRow>>),
          CsvFile(EnvName("Songdogo"), TRUE, 5, <<BlankEnvRow>>),
          CsvFile(Name("NFD", "Haneulgo", "env"), TRUE, 5, <<GoodEnvRow>>),
          CsvFile(Name("NFC", "Songdogo", "memo"), TRUE, 5, <<GoodEnvRow>>),
          OtherFile("txt", EnvName("Songdogo"))}

\* The sheets of the multi-sheet inputs.
SheetCatalogue ==
    {Table(SheetName(s), TRUE, 5, <<GoodGrowthRow>>) : s \in Range(Schools) \cup {"Gita"}}
    \cup {Table(SheetName("Songdogo"), FALSE, 5, <<GoodGrowthRow>>),
          Table(SheetName("Songdogo"), TRUE, 4, <<<<<<"a">>, Ten, Ten, Ten>>>>),
          Table(SheetName("Songdogo"), TRUE, 5, <<>>),
          Table(SheetName("Songdogo"), TRUE, 5, <<BlankGrowthRow>>),
          Table(Name("NFD", "Haneulgo", ""), TRUE, 5, <<GoodGrowthRow>>)}

\* The directory listings the session is run on.
Directories ==
    {<<CsvFile(EnvName("Songdogo"), TRUE, 5, rows), FixedWorkbook>> :
        rows \in SeqsUpTo(EnvRows, MaxRows)}
    \cup {<<FixedCsv, Workbook(GrowthName, TRUE, <<Table(SheetName("Haneulgo"), TRUE, 5, rows)>>)>> :
        rows \in SeqsUpTo(GrowthRows, MaxRows)}
    \cup {files \o tail : files \in SeqsUpTo(CsvCatalogue, MaxItems),
                          tail \in {<<>>, <<FixedWorkbook>>}}
    \cup {head \o <<Workbook(GrowthName, TRUE, sheets)>> :
            sheets \in SeqsUpTo(SheetCatalogue, MaxItems),
            head \in {<<>>, <<FixedCsv>>}}
    \cup {<<file, Workbook(GrowthName, TRUE, <<sheet>>)>> :
            file \in CsvCatalogue, sheet \in SheetCatalogue}
    \cup {<<CsvFile(EnvName(a), TRUE, 5, <<GoodEnvRow>>),
            CsvFile(EnvName(b), TRUE, 5, <<GoodEnvRow>>),
            Workbook(GrowthName, TRUE, <<Table(SheetName(c), TRUE, 5, <<GoodGrowthRow>>),
                                         Table(SheetName(d), TRUE, 5, <<GoodGrowthRow>>)>>)>> :
            a \in Range(Schools), b \in Range(Schools),
            c \in Range(Schools), d \in Range(Schools)}
    \cup {<<Workbook(GrowthName, FALSE, <<>>)>>,
          <<FixedCsv, Workbook(GrowthName, FALSE, <<>>)>>,
          <<OtherFile("xlsx", Name("NFC", "memo", "memo")), FixedWorkbook,
            Workbook(GrowthName, FALSE, <<>>)>>}

\* ----------------------------------------------------------------- state
VARIABLES
    dir,                 \* DATA_DIR: [exists, entries in iterdir() order]
    pc,                  \* the script's position
    i,                   \* the index of the next item of the running loop
    all_env_data,        \* the frames appended by the environment loader
    env_df,
    env_summary_df,
    xlsx_path,           \* the index of the workbook found, 0 for None
    all_growth_data,     \* the frames appended by the growth loader
    growth_df,
    growth_summary_df,
    selected_school,
    filtered_env_df,
    filtered_growth_df,
    env_download,        \* the CSV download button of tab 2
    growth_download,     \* the XLSX download button of tab 3
    messages             \* the st.error / st.warning calls so far

vars == <<dir, pc, i, all_env_data, env_df, env_summary_df, xlsx_path, all_growth_data,
          growth_df, growth_summary_df, selected_school, filtered_env_df,
          filtered_growth_df, env_download, growth_download, messages>>

loaderVars == <<all_env_data, env_df, env_summary_df, xlsx_path, all_growth_data,
                growth_df, growth_summary_df>>

viewVars == <<selected_school, filtered_env_df, filtered_growth_df, env_download,
              growth_download>>

\* No download button.
NoDownload == [offered |-> FALSE, shown |-> <<>>, columns |-> <<>>, rows |-> 0,
               file_name |-> [prefix |-> "", rest |-> ""]]

Message(level, kind, item) == [level |-> level, kind |-> kind, item |-> item]

Init ==
    /\ dir \in {[exists |-> FALSE, entries |-> <<>>]}
               \cup {[exists |-> TRUE, entries |-> d] : d \in Directories}
    /\ pc = "start"
    /\ i = 1
    /\ all_env_data = <<>>
    /\ env_df = EmptyFrame
    /\ env_summary_df = EmptyFrame
    /\ xlsx_path = 0
    /\ all_growth_data = <<>>
    /\ growth_df = EmptyFrame
    /\ growth_summary_df = EmptyFrame
    /\ selected_school = Schools[1]
    /\ filtered_env_df = EmptyFrame
    /\ filtered_growth_df = EmptyFrame
    /\ env_download = NoDownload
    /\ growth_download = NoDownload
    /\ messages = <<>>

\* ---------------------------------------------------- environment loader
EnvColumns == <<"time", "temperature", "humidity", "ph", "ec">>
GrowthColumns == <<"individual_id", "leaf_count", "shoot_length", "root_length", "fresh_weight">>

Position(cols, c) == CHOOSE k \in 1..Len(cols) : cols[k] = c

\* pd.read_csv / xls.parse followed by the assignment of the five column
\* names: both raise on a table the reader rejects or of another width.
Parses(table) == table.readable /\ table.width = 5

\* A faulty variant, to test C3: the rows without a timestamp are kept.
EnvFrameKeepingUndated(table, school_name) ==
    LET timed == [k \in 1..Len(table.rows) |->
                    [raw |-> table.rows[k], time |-> ToDatetime(table.rows[k][1])]]
        Row(t) == [c \in Range(EnvColumns) \cup {"school", "ec_goal"} |->
                    CASE c = "time"    -> t.time
                      [] c = "school"  -> school_name
                      [] c = "ec_goal" -> EC_MAPPING[school_name].EC_goal
                      [] OTHER         -> ToNumeric(t.raw[Position(EnvColumns, c)])]
    IN  [columns |-> EnvColumns \o <<"school", "ec_goal">>,
         rows    |-> [k \in 1..Len(timed) |-> Row(timed[k])]]
\* The frame one CSV contributes: timestamps parsed, the rows without a
\* timestamp dropped, then the numeric columns coerced and the tags added.
EnvFrame(table, school_name) ==
    LET timed == [k \in 1..Len(table.rows) |->
                    [raw |-> table.rows[k], time |-> ToDatetime(table.rows[k][1])]]
        kept  == SelectSeq(timed, LAMBDA t : t.time # NaT)
        Row(t) == [c \in Range(EnvColumns) \cup {"school", "ec_goal"} |->
                    CASE c = "time"    -> t.time
                      [] c = "school"  -> school_name
                      [] c = "ec_goal" -> EC_MAPPING[school_name].EC_goal
                      [] OTHER         -> ToNumeric(t.raw[Position(EnvColumns, c)])]
    IN  [columns |-> EnvColumns \o <<"school", "ec_goal">>,
         rows    |-> [k \in 1..Len(kept) |-> Row(kept[k])]]

\* The test of the environment loop: a .csv file whose normalised name
\* contains the environment-data token.
IsEnvCandidate(e) == e.ext = "csv" /\ Normalize(e.table.name).token = "env"

CheckDataDir ==
    /\ pc = "start"
    /\ IF dir.exists
       THEN /\ pc' = "env_loop"
            /\ messages' = messages
       ELSE /\ pc' = "stopped"
            /\ messages' = Append(messages, Message("error", "no data directory", 0))
    /\ UNCHANGED <<dir, i, loaderVars, viewVars>>

\* A faulty variant, to test C2: a failing file discards the frames loaded
\* before it.
EnvVisitKeepingOnlyLast ==
    /\ pc = "env_loop"
    /\ i <= Len(dir.entries)
    /\ LET e           == dir.entries[i]
           school_name == Text(Normalize(e.table.name))
       IN  IF ~IsEnvCandidate(e) \/ ~InMapping(school_name)
           THEN UNCHANGED <<all_env_data, messages>>
           ELSE IF ~Parses(e.table)
           THEN /\ messages' = Append(messages, Message("error", "env file load", i))
                /\ all_env_data' = <<>>
           ELSE /\ all_env_data' = Append(all_env_data, EnvFrame(e.table, school_name))
                /\ messages' = messages
    /\ i' = i + 1
    /\ UNCHANGED <<dir, pc, env_df, env_summary_df, xlsx_path, all_growth_data,
                   growth_df, growth_summary_df, viewVars>>
\* A faulty variant, to test C6: a file of an unmapped school is looked up
\* in the registry inside the try block and reported as a load error.
EnvVisitReportingUnmapped ==
    /\ pc = "env_loop"
    /\ i <= Len(dir.entries)
    /\ LET e           == dir.entries[i]
           school_name == Text(Normalize(e.table.name))
       IN  IF ~IsEnvCandidate(e)
           THEN UNCHANGED <<all_env_data, messages>>
           ELSE IF ~InMapping(school_name) \/ ~Parses(e.table)
           THEN /\ messages' = Append(messages, Message("error", "env file load", i))
                /\ all_env_data' = all_env_data
           ELSE /\ all_env_data' = Append(all_env_data, EnvFrame(e.table, school_name))
                /\ messages' = messages
    /\ i' = i + 1
    /\ UNCHANGED <<dir, pc, env_df, env_summary_df, xlsx_path, all_growth_data,
                   growth_df, growth_summary_df, viewVars>>
\* One iteration of the loop over data_dir.iterdir().
EnvVisit ==
    /\ pc = "env_loop"
    /\ i <= Len(dir.entries)
    /\ LET e           == dir.entries[i]
           school_name == Text(Normalize(e.table.name))
       IN  IF ~IsEnvCandidate(e) \/ ~InMapping(school_name)
           THEN UNCHANGED <<all_env_data, messages>>
           ELSE IF ~Parses(e.table)
           THEN /\ messages' = Append(messages, Message("error", "env file load", i))
                /\ all_env_data' = all_env_data
           ELSE /\ all_env_data' = Append(all_env_data, EnvFrame(e.table, school_name))
                /\ messages' = messages
    /\ i' = i + 1
    /\ UNCHANGED <<dir, pc, env_df, env_summary_df, xlsx_path, all_growth_data,
                   growth_df, growth_summary_df, viewVars>>

\* A variant, to test C7: the test made on the rows of the concatenation.
EnvFinishOnEmptyConcat ==
    /\ pc = "env_loop"
    /\ i > Len(dir.entries)
    /\ IF all_env_data = <<>> \/ Concat(all_env_data).rows = <<>>
       THEN /\ messages' = Append(messages, Message("error", "no env data", 0))
            /\ env_df' = EmptyFrame
            /\ env_summary_df' = EmptyFrame
       ELSE /\ messages' = messages
            /\ env_df' = Concat(all_env_data)
            /\ env_summary_df' = GroupByAgg(Concat(all_env_data), "school", "school", EnvAggs)
    /\ pc' = "growth_find"
    /\ i' = 1
    /\ UNCHANGED <<dir, all_env_data, xlsx_path, all_growth_data, growth_df,
                   growth_summary_df, viewVars>>
\* The end of load_and_preprocess_env_data.
EnvFinish ==
    /\ pc = "env_loop"
    /\ i > Len(dir.entries)
    /\ IF all_env_data = <<>>
       THEN /\ messages' = Append(messages, Message("error", "no env data", 0))
            /\ env_df' = EmptyFrame
            /\ env_summary_df' = EmptyFrame
       ELSE /\ messages' = messages
            /\ env_df' = Concat(all_env_data)
            /\ env_summary_df' = GroupByAgg(Concat(all_env_data), "school", "school", EnvAggs)
    /\ pc' = "growth_find"
    /\ i' = 1
    /\ UNCHANGED <<dir, all_env_data, xlsx_path, all_growth_data, growth_df,
                   growth_summary_df, viewVars>>

\* --------------------------------------------------------- growth loader
\* The test of the search loop: an .xlsx file whose normalised name contains
\* the growth-result token.
IsGrowthCandidate(e) == e.ext = "xlsx" /\ Normalize(e.table.name).token = "growth"

\* The frame one sheet contributes: every row is kept, the numeric columns
\* are coerced and the tags added.
GrowthFrame(table, sheet_name) ==
    LET Row(raw) == [c \in Range(GrowthColumns) \cup {"school", "ec_goal"} |->
                      CASE c = "individual_id" -> raw[1]
                        [] c = "school"        -> sheet_name
                        [] c = "ec_goal"       -> EC_MAPPING[sheet_name].EC_goal
                        [] OTHER               -> ToNumeric(raw[Position(GrowthColumns, c)])]
    IN  [columns |-> GrowthColumns \o <<"school", "ec_goal">>,
         rows    |-> [k \in 1..Len(table.rows) |-> Row(table.rows[k])]]

\* The label of a growth-summary row: str(ec_goal) + ' EC'.
EcLabel(x) == FloatStr(x) \o <<" ", "E", "C">>

\* The growth summary: grouped by ec_goal, the key then rendered as label.
GrowthSummary(df) ==
    LET g == GroupByAgg(df, "ec_goal", "float", GrowthAggs)
    IN  [columns |-> g.columns,
         rows    |-> [k \in 1..Len(g.rows) |->
                        [g.rows[k] EXCEPT !["ec_goal"] = EcLabel(g.rows[k]["ec_goal"])]]]

\* The search for the workbook: the first candidate wins.
GrowthFind ==
    /\ pc = "growth_find"
    /\ LET found == {k \in 1..Len(dir.entries) : IsGrowthCandidate(dir.entries[k])}
       IN  IF found = {}
           THEN /\ xlsx_path' = 0
                /\ messages' = Append(messages, Message("error", "no growth file", 0))
                /\ pc' = "check"
           ELSE /\ xlsx_path' = CHOOSE k \in found : \A j \in found : k <= j
                /\ messages' = messages
                /\ pc' = "growth_open"
    /\ UNCHANGED <<dir, i, all_env_data, env_df, env_summary_df, all_growth_data,
                   growth_df, growth_summary_df, viewVars>>

\* pd.ExcelFile(xlsx_path) and the normalisation of the sheet names.
GrowthOpen ==
    /\ pc = "growth_open"
    /\ IF dir.entries[xlsx_path].table.readable
       THEN /\ pc' = "growth_loop"
            /\ messages' = messages
       ELSE /\ pc' = "check"
            /\ messages' = Append(messages, Message("error", "workbook read", 0))
    /\ UNCHANGED <<dir, i, loaderVars, viewVars>>

\* One iteration of the loop over the sheet names.
GrowthVisit ==
    /\ pc = "growth_loop"
    /\ i <= Len(dir.entries[xlsx_path].sheets)
    /\ LET sheet      == dir.entries[xlsx_path].sheets[i]
           sheet_name == Text(Normalize(sheet.name))
       IN  IF ~InMapping(sheet_name)
           THEN UNCHANGED <<all_growth_data, messages>>
           ELSE IF ~Parses(sheet)
           THEN /\ messages' = Append(messages, Message("warning", "sheet load", i))
                /\ all_growth_data' = all_growth_data
           ELSE /\ all_growth_data' = Append(all_growth_data, GrowthFrame(sheet, sheet_name))
                /\ messages' = messages
    /\ i' = i + 1
    /\ UNCHANGED <<dir, pc, all_env_data, env_df, env_summary_df, xlsx_path, growth_df,
                   growth_summary_df, viewVars>>

\* The end of load_and_preprocess_growth_data.
GrowthFinish ==
    /\ pc = "growth_loop"
    /\ i > Len(dir.entries[xlsx_path].sheets)
    /\ IF all_growth_data = <<>>
       THEN /\ messages' = Append(messages, Message("error", "no growth data", 0))
            /\ growth_df' = EmptyFrame
            /\ growth_summary_df' = EmptyFrame
       ELSE /\ messages' = messages
            /\ growth_df' = Concat(all_growth_data)
            /\ growth_summary_df' = GrowthSummary(Concat(all_growth_data))
    /\ pc' = "check"
    /\ i' = 1
    /\ UNCHANGED <<dir, all_env_data, env_df, env_summary_df, xlsx_path, all_growth_data,
                   viewVars>>

\* ------------------------------------------------------- filter and tabs
\* The halt when both loaders returned empty frames.
CheckAllEmpty ==
    /\ pc = "check"
    /\ IF IsEmpty(env_df) /\ IsEmpty(growth_df)
       THEN /\ pc' = "stopped"
            /\ messages' = Append(messages, Message("error", "all data empty", 0))
       ELSE /\ pc' = "sidebar"
            /\ messages' = messages
    /\ UNCHANGED <<dir, i, loaderVars, viewVars>>

\* The selectbox returns the user's choice (the second option on a first run).
SelectSchool ==
    /\ pc = "sidebar"
    /\ \E s \in Range(school_options) : selected_school' = s
    /\ pc' = "filter"
    /\ UNCHANGED <<dir, i, loaderVars, filtered_env_df, filtered_growth_df, env_download,
                   growth_download, messages>>

\* The filter by school.  df['school'] of a frame without that column is a
\* KeyError, which nothing catches.
Filter ==
    /\ pc = "filter"
    /\ IF selected_school = Jeonche
       THEN /\ filtered_env_df' = env_df
            /\ filtered_growth_df' = growth_df
            /\ pc' = "tab1"
            /\ messages' = messages
       ELSE IF ~HasColumn(env_df, "school") \/ ~HasColumn(growth_df, "school")
       THEN /\ UNCHANGED <<filtered_env_df, filtered_growth_df>>
            /\ pc' = "crashed"
            /\ messages' = Append(messages, Message("exception", "KeyError: school", 0))
       ELSE /\ filtered_env_df' = SelectWhere(env_df, "school", selected_school)
            /\ filtered_growth_df' = SelectWhere(growth_df, "school", selected_school)
            /\ pc' = "tab1"
            /\ messages' = messages
    /\ UNCHANGED <<dir, i, loaderVars, selected_school, env_download, growth_download>>

\* Tab 1.  With a growth summary whose averages of fresh weight are all NaN,
\* idxmax has no label to return and the lookup of the best row raises.
Tab1 ==
    /\ pc = "tab1"
    /\ IF /\ ~IsEmpty(growth_summary_df)
          /\ \A k \in 1..Len(growth_summary_df.rows) :
                IsNaN(growth_summary_df.rows[k]["avg_fresh_weight"])
       THEN /\ pc' = "crashed"
            /\ messages' = Append(messages, Message("exception", "idxmax of all-NaN avg_fresh_weight", 0))
       ELSE /\ pc' = "tab2"
            /\ messages' = messages
    /\ UNCHANGED <<dir, i, loaderVars, viewVars>>

\* The download button of a raw-data expander: the table shown drops
\* ec_goal, the file offered is written from the whole filtered frame.
Download(df, school, rest) ==
    [offered   |-> ~IsEmpty(df),
     shown     |-> DropColumn(df, "ec_goal").columns,
     columns   |-> IF IsEmpty(df) THEN <<>> ELSE df.columns,
     rows      |-> IF IsEmpty(df) THEN 0 ELSE Len(df.rows),
     file_name |-> IF IsEmpty(df) THEN NoDownload.file_name
                   ELSE [prefix |-> school, rest |-> rest]]

\* Tab 2: the environment charts and the raw-data expander.
Tab2 ==
    /\ pc = "tab2"
    /\ IF IsEmpty(env_summary_df)
       THEN /\ messages' = Append(messages, Message("error", "no env charts", 0))
            /\ env_download' = NoDownload
       ELSE /\ messages' = messages
            /\ env_download' = Download(filtered_env_df, selected_school, "_env_raw.csv")
    /\ pc' = "tab3"
    /\ UNCHANGED <<dir, i, loaderVars, selected_school, filtered_env_df, filtered_growth_df,
                   growth_download>>

\* The schools whose EC target is the number a summary label starts with.
SchoolsOfLabel(label) ==
    SelectSeq(Schools, LAMBDA s : EC_MAPPING[s].EC_goal = ParseFloat(SplitAt(label, " ")))

\* Tab 3: the growth cards and charts and the raw-data expander.  The cards
\* take the first school found for each label.
Tab3 ==
    /\ pc = "tab3"
    /\ IF IsEmpty(growth_df)
       THEN /\ messages' = Append(messages, Message("error", "no growth charts", 0))
            /\ growth_download' = NoDownload
            /\ pc' = "done"
       ELSE IF \E k \in 1..Len(growth_summary_df.rows) :
                  SchoolsOfLabel(growth_summary_df.rows[k]["ec_goal"]) = <<>>
       THEN /\ messages' = Append(messages, Message("exception", "IndexError: no school for label", 0))
            /\ growth_download' = NoDownload
            /\ pc' = "crashed"
       ELSE /\ messages' = messages
            /\ growth_download' =
                 Download(filtered_growth_df, selected_school, "_growth_raw.xlsx")
            /\ pc' = "done"
    /\ UNCHANGED <<dir, i, loaderVars, selected_school, filtered_env_df, filtered_growth_df,
                   env_download>>

Next ==
    \/ CheckDataDir
    \/ EnvVisit
    \/ EnvFinish
    \/ GrowthFind
    \/ GrowthOpen
    \/ GrowthVisit
    \/ GrowthFinish
    \/ CheckAllEmpty
    \/ SelectSchool
    \/ Filter
    \/ Tab1
    \/ Tab2
    \/ Tab3

Spec == Init /\ [][Next]_vars

\* ------------------------------------------------------------ properties
\* Positions of the run.
EnvLoaded == dir.exists /\ pc \notin {"start", "env_loop"}

GrowthLoaded == dir.exists /\ pc \notin {"start", "env_loop", "growth_find", "growth_open",
                                         "growth_loop"}

\* What the directory holds, read off the input alone.
EnvMatched(k) ==
    /\ dir.entries[k].ext = "csv"
    /\ dir.entries[k].table.name.token = "env"
    /\ dir.entries[k].table.name.prefix \in Range(Schools)

EnvLoadable(k) ==
    /\ EnvMatched(k)
    /\ dir.entries[k].table.readable
    /\ dir.entries[k].table.width = 5

WorkbookIndex ==
    LET found == {k \in 1..Len(dir.entries) :
                    dir.entries[k].ext = "xlsx" /\ dir.entries[k].table.name.token = "growth"}
    IN  IF found = {} THEN 0 ELSE CHOOSE k \in found : \A j \in found : k <= j

WorkbookOpened == WorkbookIndex # 0 /\ dir.entries[WorkbookIndex].table.readable

TheSheets == IF WorkbookOpened THEN dir.entries[WorkbookIndex].sheets ELSE <<>>

SheetMatched(k) == TheSheets[k].name.prefix \in Range(Schools)

SheetLoadable(k) == SheetMatched(k) /\ TheSheets[k].readable /\ TheSheets[k].width = 5

\* The raw rows that reach the unified tables, in order, with their school.
TimedRows(table) == SelectSeq(table.rows, LAMBDA raw : IsNumeral(raw[1]))

Tagged(rows, school) == [k \in 1..Len(rows) |-> [raw |-> rows[k], school |-> school]]

EnvSurvivors ==
    Flatten([k \in 1..Len(dir.entries) |->
        IF EnvLoadable(k)
        THEN Tagged(TimedRows(dir.entries[k].table), dir.entries[k].table.name.prefix)
        ELSE <<>>])

GrowthSurvivors ==
    Flatten([k \in 1..Len(TheSheets) |->
        IF SheetLoadable(k) THEN Tagged(TheSheets[k].rows, TheSheets[k].name.prefix)
        ELSE <<>>])

Signalled(level, kind, item) == Message(level, kind, item) \in Range(messages)

Halted == pc \in {"stopped", "crashed"}

\* C1: when the data directory exists and exactly one pipeline returned
\* empty results, the session neither halts nor ends in an unhandled error,
\* whatever the school selector holds.
C1_OnePipelineEmptySessionContinues ==
    (GrowthLoaded /\ (IsEmpty(env_df) # IsEmpty(growth_df))) => ~Halted

\* C2: a file (sheet) that fails to parse is reported by name and adds no
\* row; every other matched file (sheet) adds all the rows it yields, in
\* whatever order the items are visited.
C2_FailedItemSkippedOthersLoad ==
    /\ EnvLoaded =>
        LET kept == EnvSurvivors
        IN  /\ Len(env_df.rows) = Len(kept)
            /\ \A k \in 1..Len(env_df.rows) : env_df.rows[k]["school"] = kept[k].school
            /\ \A k \in 1..Len(dir.entries) :
                 Signalled("error", "env file load", k) <=> (EnvMatched(k) /\ ~EnvLoadable(k))
    /\ GrowthLoaded =>
        LET kept == GrowthSurvivors
        IN  /\ Len(growth_df.rows) = Len(kept)
            /\ \A k \in 1..Len(growth_df.rows) :
                 /\ growth_df.rows[k]["school"] = kept[k].school
                 /\ growth_df.rows[k]["individual_id"] = kept[k].raw[1]
            /\ \A k \in 1..Len(TheSheets) :
                 Signalled("warning", "sheet load", k) <=> (SheetMatched(k) /\ ~SheetLoadable(k))

C2_Witness ==
    /\ GrowthLoaded
    /\ \E k, j \in 1..Len(dir.entries) :
         /\ k < j /\ EnvLoadable(k) /\ EnvMatched(j) /\ ~EnvLoadable(j)
         /\ dir.entries[k].table.rows # <<>>
    /\ env_df.rows # <<>>
    /\ Signalled("error", "env file load", 2)

\* C3: a row whose timestamp does not parse never reaches the unified
\* environment table and every row whose timestamp parses does: the table
\* has at most as many rows as the loaded files, fewer exactly when a
\* timestamp is malformed, whatever the numeric cells of the row hold.
C3_UndatedRowsDropped ==
    EnvLoaded =>
        LET loaded == Flatten([k \in 1..Len(dir.entries) |->
                        IF EnvLoadable(k) THEN dir.entries[k].table.rows ELSE <<>>])
            bad    == SelectSeq(loaded, LAMBDA raw : ~IsNumeral(raw[1]))
            kept   == EnvSurvivors
        IN  /\ \A k \in 1..Len(env_df.rows) : env_df.rows[k]["time"] # NaT
            /\ Len(env_df.rows) = Len(loaded) - Len(bad)
            /\ Len(env_df.rows) <= Len(loaded)
            /\ (Len(env_df.rows) < Len(loaded)) <=> (bad # <<>>)
            /\ \A k \in 1..Len(env_df.rows) :
                 env_df.rows[k]["time"] = DigitsVal(kept[k].raw[1])

C3_Witness ==
    /\ EnvLoaded
    /\ Len(env_df.rows) = 2
    /\ \E k \in 1..Len(dir.entries) :
         /\ EnvLoadable(k)
         /\ Len(dir.entries[k].table.rows) = 3
         /\ \E r \in 1..3 : /\ ~IsNumeral(dir.entries[k].table.rows[r][1])
                            /\ ~IsNumeral(dir.entries[k].table.rows[r][2])

\* C4: in both loaders a numeric cell that does not parse becomes missing
\* (not zero, not an error) and a cell that parses keeps its value; the row
\* is kept either way: which rows survive does not depend on numeric cells.
C4_BadNumberIsMissingRowKept ==
    /\ EnvLoaded =>
        LET kept == EnvSurvivors
        IN  /\ Len(env_df.rows) = Len(kept)
            /\ \A k \in 1..Len(env_df.rows) : \A c \in 2..5 :
                 LET cell == kept[k].raw[c]
                     out  == env_df.rows[k][EnvColumns[c]]
                 IN  IF IsNumeral(cell) THEN out.den = 1 /\ out.num = DigitsVal(cell)
                     ELSE out.den = 0
    /\ GrowthLoaded =>
        LET kept == GrowthSurvivors
        IN  /\ Len(growth_df.rows) = Len(kept)
            /\ \A k \in 1..Len(growth_df.rows) : \A c \in 2..5 :
                 LET cell == kept[k].raw[c]
                     out  == growth_df.rows[k][GrowthColumns[c]]
                 IN  IF IsNumeral(cell) THEN out.den = 1 /\ out.num = DigitsVal(cell)
                     ELSE out.den = 0

C4_Witness ==
    /\ GrowthLoaded
    /\ \E k \in 1..Len(env_df.rows) :
         /\ ~IsNumeral(EnvSurvivors[k].raw[2])
         /\ IsNaN(env_df.rows[k]["temperature"])
    /\ \E k \in 1..Len(growth_df.rows) :
         /\ ~IsNumeral(GrowthSurvivors[k].raw[5])
         /\ IsNaN(growth_df.rows[k]["fresh_weight"])

\* The sum of the numerators of whole-number floats.
RECURSIVE NumSum(_)
NumSum(xs) == IF xs = <<>> THEN 0 ELSE Head(xs).num + NumSum(Tail(xs))

Present(xs) == SelectSeq(xs, LAMBDA x : x.den # 0)

\* avg is the sum of the present values of xs over their number.
IsMeanOfPresent(avg, xs) ==
    IF Present(xs) = <<>> THEN avg.den = 0
    ELSE avg.den > 0 /\ avg.num * Len(Present(xs)) = NumSum(Present(xs)) * avg.den

EnvGroup(school) == SelectSeq(env_df.rows, LAMBDA r : r["school"] = school)

GrowthGroup(label) ==
    SelectSeq(growth_df.rows,
              LAMBDA r : /\ r["ec_goal"].den = 1
                         /\ IntStr(r["ec_goal"].num) \o <<".", "0", " ", "E", "C">> = label)

MeanAggs(aggs) == {aggs[k] : k \in {j \in 1..Len(aggs) : aggs[j].fn = "mean"}}

\* C5: every mean of either summary is the sum of the group's present
\* values divided by the number of present values, never by the number of
\* rows of the group; [10, missing, 20] gives 15.
C5_MeanOverPresentValues ==
    /\ EnvLoaded =>
        \A k \in 1..Len(env_summary_df.rows) : \A a \in MeanAggs(EnvAggs) :
            IsMeanOfPresent(env_summary_df.rows[k][a.out],
                            Column(EnvGroup(env_summary_df.rows[k]["school"]), a.col))
    /\ GrowthLoaded =>
        \A k \in 1..Len(growth_summary_df.rows) : \A a \in MeanAggs(GrowthAggs) :
            IsMeanOfPresent(growth_summary_df.rows[k][a.out],
                            Column(GrowthGroup(growth_summary_df.rows[k]["ec_goal"]), a.col))

C5_Witness ==
    /\ GrowthLoaded
    /\ \E k \in 1..Len(env_summary_df.rows) :
         /\ Column(EnvGroup(env_summary_df.rows[k]["school"]), "temperature")
              = <<[num |-> 10, den |-> 1], [num |-> 0, den |-> 0], [num |-> 20, den |-> 1]>>
         /\ env_summary_df.rows[k]["avg_temp"] = [num |-> 15, den |-> 1]
    /\ \E k \in 1..Len(growth_summary_df.rows) :
         growth_summary_df.rows[k]["avg_fresh_weight"] = [num |-> 10, den |-> 1]

\* C6: every record of both unified tables carries a school of the
\* registry and that school's EC target; a file or sheet whose name is no
\* registry key adds no record and is no error.
C6_RecordsCarryRegistrySchool ==
    /\ EnvLoaded =>
        /\ \A k \in 1..Len(env_df.rows) :
             /\ env_df.rows[k]["school"] \in Range(Schools)
             /\ env_df.rows[k]["ec_goal"] = EC_MAPPING[env_df.rows[k]["school"]].EC_goal
             /\ \E j \in 1..Len(dir.entries) :
                  EnvLoadable(j) /\ dir.entries[j].table.name.prefix = env_df.rows[k]["school"]
        /\ \A j \in 1..Len(dir.entries) :
             ~EnvMatched(j) => ~Signalled("error", "env file load", j)
    /\ GrowthLoaded =>
        /\ \A k \in 1..Len(growth_df.rows) :
             /\ growth_df.rows[k]["school"] \in Range(Schools)
             /\ growth_df.rows[k]["ec_goal"] = EC_MAPPING[growth_df.rows[k]["school"]].EC_goal
             /\ \E j \in 1..Len(TheSheets) :
                  SheetLoadable(j) /\ TheSheets[j].name.prefix = growth_df.rows[k]["school"]
        /\ \A j \in 1..Len(TheSheets) :
             ~SheetMatched(j) => ~Signalled("warning", "sheet load", j)

C6_Witness ==
    /\ GrowthLoaded
    /\ \E j, k \in 1..Len(dir.entries) :
         /\ dir.entries[j].ext = "csv" /\ dir.entries[j].table.name.token = "env"
         /\ dir.entries[j].table.name.prefix = "Gita"
         /\ dir.entries[j].table.rows # <<>>
         /\ EnvLoadable(k)
    /\ Len(env_df.rows) = 1
    /\ growth_df.rows # <<>>
    /\ messages = <<>>

\* C7 as stated: whenever the concatenation of the loaded files (sheets)
\* has no rows, the loader signals "no usable data" and returns two empty
\* results.
C7_EmptyConcatenationSignalled ==
    /\ (EnvLoaded /\ EnvSurvivors = <<>>) =>
        /\ Signalled("error", "no env data", 0)
        /\ IsEmpty(env_df) /\ IsEmpty(env_summary_df)
    /\ (GrowthLoaded /\ WorkbookOpened /\ GrowthSurvivors = <<>>) =>
        /\ Signalled("error", "no growth data", 0)
        /\ IsEmpty(growth_df) /\ IsEmpty(growth_summary_df)

\* C7 as amended: the loader signals "no usable data" and returns two
\* frames without columns exactly when no file (sheet) was loaded: none
\* matched or every matched one failed.  When one was loaded nothing is
\* signalled, also when the concatenation has no rows: the two results then
\* keep their columns and have no rows.
C7_NothingLoadedSignalled ==
    /\ EnvLoaded =>
        LET none == \A k \in 1..Len(dir.entries) : ~EnvLoadable(k)
        IN  /\ Signalled("error", "no env data", 0) <=> none
            /\ none => env_df = EmptyFrame /\ env_summary_df = EmptyFrame
            /\ ~none => /\ env_df.columns = EnvColumns \o <<"school", "ec_goal">>
                        /\ env_summary_df.columns # <<>>
                        /\ (EnvSurvivors = <<>>) =>
                             env_df.rows = <<>> /\ env_summary_df.rows = <<>>
    /\ (GrowthLoaded /\ WorkbookOpened) =>
        LET none == \A k \in 1..Len(TheSheets) : ~SheetLoadable(k)
        IN  /\ Signalled("error", "no growth data", 0) <=> none
            /\ none => growth_df = EmptyFrame /\ growth_summary_df = EmptyFrame
            /\ ~none => /\ growth_df.columns = GrowthColumns \o <<"school", "ec_goal">>
                        /\ growth_summary_df.columns # <<>>
                        /\ (GrowthSurvivors = <<>>) =>
                             growth_df.rows = <<>> /\ growth_summary_df.rows = <<>>

C7_Witness ==
    /\ GrowthLoaded
    /\ \E k \in 1..Len(dir.entries) : EnvLoadable(k) /\ dir.entries[k].table.rows # <<>>
    /\ EnvSurvivors = <<>>
    /\ ~Signalled("error", "no env data", 0)
    /\ env_df.columns # <<>>
    /\ \E k \in 1..Len(TheSheets) : SheetLoadable(k)
    /\ GrowthSurvivors = <<>>
    /\ ~Signalled("error", "no growth data", 0)

\* The first row of a table that holds v in column c (0 when none does).
FirstIndex(rows, c, v) ==
    LET at == {k \in 1..Len(rows) : rows[k][c] = v}
    IN  IF at = {} THEN 0 ELSE CHOOSE k \in at : \A j \in at : k <= j

\* The number a growth label starts with, in tenths.
LabelTenths(label) ==
    LET ip == SplitAt(label, ".")
    IN  DigitsVal(ip) * 10 + DigitsVal(<<label[Len(ip) + 2]>>)

FirstGrowthIndex(label) ==
    LET at == {k \in 1..Len(growth_df.rows) :
                 growth_df.rows[k]["ec_goal"].num * 10
                    = LabelTenths(label) * growth_df.rows[k]["ec_goal"].den}
    IN  IF at = {} THEN 0 ELSE CHOOSE k \in at : \A j \in at : k <= j

\* C8 as stated: the rows of each summary are in the order in which their
\* keys first occur in the unified table.
C8_SummaryInDiscoveryOrder ==
    /\ EnvLoaded =>
        \A a, b \in 1..Len(env_summary_df.rows) :
            a < b => FirstIndex(env_df.rows, "school", env_summary_df.rows[a]["school"])
                      < FirstIndex(env_df.rows, "school", env_summary_df.rows[b]["school"])
    /\ GrowthLoaded =>
        \A a, b \in 1..Len(growth_summary_df.rows) :
            a < b => FirstGrowthIndex(growth_summary_df.rows[a]["ec_goal"])
                      < FirstGrowthIndex(growth_summary_df.rows[b]["ec_goal"])

\* C8 as amended: each summary has one row per key of the unified table,
\* in ascending key order whatever the order of discovery: school names in
\* code-point order, EC targets in numeric order.
C8_SummaryInKeyOrder ==
    /\ EnvLoaded =>
        /\ {env_summary_df.rows[k]["school"] : k \in 1..Len(env_summary_df.rows)}
             = {env_df.rows[k]["school"] : k \in 1..Len(env_df.rows)}
        /\ \A a, b \in 1..Len(env_summary_df.rows) :
             a < b => EC_MAPPING[env_summary_df.rows[a]["school"]].cp
                       < EC_MAPPING[env_summary_df.rows[b]["school"]].cp
    /\ GrowthLoaded =>
        /\ {LabelTenths(growth_summary_df.rows[k]["ec_goal"]) :
                k \in 1..Len(growth_summary_df.rows)}
             = {growth_df.rows[k]["ec_goal"].num * 10 : k \in 1..Len(growth_df.rows)}
        /\ \A a, b \in 1..Len(growth_summary_df.rows) :
             a < b => LabelTenths(growth_summary_df.rows[a]["ec_goal"])
                       < LabelTenths(growth_summary_df.rows[b]["ec_goal"])

C8_Witness ==
    /\ GrowthLoaded
    /\ Len(env_summary_df.rows) = 2
    /\ FirstIndex(env_df.rows, "school", env_summary_df.rows[1]["school"]) = 2
    /\ Len(growth_summary_df.rows) = 2
    /\ FirstGrowthIndex(growth_summary_df.rows[1]["ec_goal"]) = 2

\* C9: the raw-data downloads leave out the ec_goal column and are named
\* after the selected school (or the "all" entry).
C9_ExportsOmitEcGoal ==
    /\ env_download.offered =>
        /\ env_download.columns = EnvColumns \o <<"school">>
        /\ env_download.file_name = [prefix |-> selected_school, rest |-> "_env_raw.csv"]
    /\ growth_download.offered =>
        /\ growth_download.columns = GrowthColumns \o <<"school">>
        /\ growth_download.file_name = [prefix |-> selected_school, rest |-> "_growth_raw.xlsx"]

\* The same aggregation applied to a summary: grouped by the same key, the
\* mean of every average, the first EC target, the count of the rows.
EnvReAggs ==
    [k \in 1..Len(EnvAggs) |->
        [out |-> EnvAggs[k].out, col |-> EnvAggs[k].out, fn |-> EnvAggs[k].fn,
         dtype |-> IF EnvAggs[k].fn = "count" THEN "int64" ELSE "float"]]

GrowthReAggs ==
    [k \in 1..Len(GrowthAggs) |->
        [out |-> GrowthAggs[k].out, col |-> GrowthAggs[k].out, fn |-> GrowthAggs[k].fn,
         dtype |-> IF GrowthAggs[k].fn = "count" THEN "int64" ELSE "float"]]

EnvReaggregated == GroupByAgg(env_summary_df, "school", "school", EnvReAggs)

GrowthReaggregated == GroupByAgg(growth_summary_df, "ec_goal", "label", GrowthReAggs)

\* C10 as stated: aggregating a summary again gives the same summary, the
\* count column and the key column included.
C10_ReaggregationIsIdentity ==
    /\ (EnvLoaded /\ env_summary_df # EmptyFrame) => EnvReaggregated = env_summary_df
    /\ (GrowthLoaded /\ growth_summary_df # EmptyFrame) =>
          GrowthReaggregated = growth_summary_df

\* t and u agree on the columns, the number of rows and every column but
\* count, and every count of t is 1.
SameButCountsOne(t, u) ==
    /\ t.columns = u.columns
    /\ Len(t.rows) = Len(u.rows)
    /\ \A k \in 1..Len(t.rows) :
         /\ \A c \in Range(u.columns) \ {"count"} : t.rows[k][c] = u.rows[k][c]
         /\ t.rows[k]["count"] = 1

\* C10 as amended: aggregating a summary again keeps the key column, the
\* order of the rows, the EC target and every mean; the count column is
\* not kept: it becomes 1 in every row (a summary is reproduced exactly
\* only when each of its counts is 1).
C10_ReaggregationKeepsMeansNotCounts ==
    /\ (EnvLoaded /\ env_summary_df # EmptyFrame) =>
          SameButCountsOne(EnvReaggregated, env_summary_df)
    /\ (GrowthLoaded /\ growth_summary_df # EmptyFrame) =>
          SameButCountsOne(GrowthReaggregated, growth_summary_df)

C10_Witness ==
    /\ GrowthLoaded
    /\ Len(env_summary_df.rows) = 2
    /\ Len(growth_summary_df.rows) = 1
    /\ growth_summary_df.rows[1]["count"] = 2
    /\ GrowthReaggregated # growth_summary_df
    /\ EnvReaggregated = env_summary_df

\* ------------------------------------------------------------------ C11
\* The count of an environment summary row is the number of rows of env_df
\* with the row's school.
EnvCountIsGroupSize ==
    (EnvLoaded /\ env_summary_df # EmptyFrame) =>
        \A k \in 1..Len(env_summary_df.rows) :
            env_summary_df.rows[k]["count"] =
                Len(EnvGroup(env_summary_df.rows[k]["school"]))

\* The count of a growth summary row is the number of rows of growth_df
\* with the row's ec_goal.
GrowthCountIsGroupSize ==
    (GrowthLoaded /\ growth_summary_df # EmptyFrame) =>
        \A k \in 1..Len(growth_summary_df.rows) :
            growth_summary_df.rows[k]["count"] =
                Len(GrowthGroup(growth_summary_df.rows[k]["ec_goal"]))

\* C11: each summary row's count equals the number of rows of the unified
\* table that belong to its group: the valid timestamped rows of the school
\* in the environment summary, the growth records with that ec_goal in the
\* growth summary, also when some of those records have no individual_id.
C11_CountIsGroupSize == EnvCountIsGroupSize /\ GrowthCountIsGroupSize

\* ------------------------------------------------------------------ C12
\* The school that tab 3 finds for a label: the first result of the
\* reverse search of the registry, "none" when the search finds nothing.
SchoolOfLabel(label) ==
    IF SchoolsOfLabel(label) = <<>> THEN "none" ELSE SchoolsOfLabel(label)[1]

\* C12: every row of the growth summary is labelled with the numeric
\* ec_goal of its records followed by " EC" (so the records written as
\* that label are a non-empty group, and every record is in the group of
\* some row), and the reverse search of the registry for the label's
\* numeric prefix finds exactly one school, the school of every record of
\* the group, whose registry target is the group's ec_goal.
C12_LabelRoundTripFindsTheSchool ==
    (GrowthLoaded /\ growth_summary_df # EmptyFrame) =>
        /\ \A k \in 1..Len(growth_summary_df.rows) :
              LET label == growth_summary_df.rows[k]["ec_goal"]
                  group == GrowthGroup(label)
              IN  /\ group # <<>>
                  /\ Len(SchoolsOfLabel(label)) = 1
                  /\ \A j \in 1..Len(group) :
                        /\ group[j]["school"] = SchoolOfLabel(label)
                        /\ group[j]["ec_goal"] = EC_MAPPING[group[j]["school"]].EC_goal
        /\ \A j \in 1..Len(growth_df.rows) :
              \E k \in 1..Len(growth_summary_df.rows) :
                  /\ SchoolOfLabel(growth_summary_df.rows[k]["ec_goal"])
                        = growth_df.rows[j]["school"]
                  /\ \A m \in 1..Len(growth_summary_df.rows) :
                        SchoolOfLabel(growth_summary_df.rows[m]["ec_goal"])
                          = growth_df.rows[j]["school"] => m = k

\* Tab 3 has drawn the cards of a two-row summary whose first row is the
\* group of the second sheet visited, and the two labels lead back to the
\* two schools of the records.
C12_Witness ==
    /\ pc = "done"
    /\ Len(growth_summary_df.rows) = 2
    /\ FirstGrowthIndex(growth_summary_df.rows[1]["ec_goal"]) = 2
    /\ SchoolOfLabel(growth_summary_df.rows[1]["ec_goal"]) = growth_df.rows[2]["school"]
    /\ SchoolOfLabel(growth_summary_df.rows[2]["ec_goal"]) = growth_df.rows[1]["school"]
    /\ growth_df.rows[1]["school"] # growth_df.rows[2]["school"]

====
